---- MODULE Spec2Model ----
(***************************************************************************)
(* Model of the COSC264 file server (src/server/server.py) and its client   *)
(* (src/client/client.py): the FileRequest / FileResponse codec, the        *)
(* server's accept loop and the client's download run, over one TCP         *)
(* connection modelled as two byte queues.                                  *)
(*                                                                          *)
(* One recv(n) is one step.  It returns between 1 and n of the bytes the    *)
(* peer has sent so far, an empty block once the peer has closed and all    *)
(* its bytes are consumed, or it raises socket.timeout or another error.    *)
(* Python's exit(1) and every uncaught exception end the process.           *)
(***************************************************************************)
EXTENDS Integers, Sequences, FiniteSets, TLC

(* ---------------- program constants ---------------- *)
MAGICNO == 18814
REQUEST_TYPE == 1
RESPONSE_TYPE == 2
MIN_FILENAME_LEN == 1
MAX_FILENAME_LEN == 1024
REQUEST_HEADER_LEN == 5
RESPONSE_HEADER_LEN == 8
DATA_BLOCK_SIZE == 4096

(* ---------------- bounds of the model ---------------- *)
\* connections a hand-written peer opens to the server, one after the other
MaxConns == 2
\* filename bytes a hand-written peer sends after its request header
MaxPayload == 2
\* data bytes a hand-written peer sends after its response header
MaxData == 2

(* ---------------- Python primitives ---------------- *)
Min(a, b) == IF a < b THEN a ELSE b

\* s[a:b] of a bytearray: clipped to the bytes that are there, never an error
Slice(s, a, b) == SubSeq(s, a + 1, Min(b, Len(s)))

\* int.from_bytes(s, byteorder='big'); 0 for the empty slice
RECURSIVE from_bytes(_)
from_bytes(s) ==
    IF s = <<>> THEN 0
    ELSE from_bytes(SubSeq(s, 1, Len(s) - 1)) * 256 + s[Len(s)]

\* n.to_bytes(w, byteorder='big') raises OverflowError when n needs more bytes
OverflowError(n, w) == (n \div (256 ^ (w - 1))) >= 256

\* n.to_bytes(w, byteorder='big') when it fits
to_bytes(n, w) == [i \in 1..w |-> (n \div (256 ^ (w - i))) % 256]

\* str.encode(): UTF-8 of one code point (up to U+FFFF)
encode_char(c) ==
    IF c < 128 THEN <<c>>
    ELSE IF c < 2048 THEN <<192 + (c \div 64), 128 + (c % 64)>>
    ELSE <<224 + (c \div 4096), 128 + ((c \div 64) % 64), 128 + (c % 64)>>

\* str.encode(): UTF-8 of a string, a sequence of code points
RECURSIVE encode(_)
encode(str) ==
    IF str = <<>> THEN <<>>
    ELSE encode_char(Head(str)) \o encode(Tail(str))

\* chr(b): the code point whose number is the byte's value
chr(b) == b

\* ''.join(map(chr, filename_bytes)): one character per byte
join_map_chr(filename_bytes) ==
    [i \in 1..Len(filename_bytes) |-> chr(filename_bytes[i])]

(* ---------------- the server's files ---------------- *)
\* "A" (2 bytes), U+00E9 (1 byte), "B" (exists, cannot be opened),
\* "E" (exists, empty), "H" (2^32 + 1 bytes); every other name is missing.
\* A file's length is blocks * 65536 + Len(data): data holds the bytes the
\* model keeps one by one, blocks counts the 65536-byte blocks before them
\* that it does not (2^32 = 65536 * 65536 is no number the checker can hold).
ServerFS(name) ==
    IF name = <<65>>
    THEN [isfile |-> TRUE, openable |-> TRUE, blocks |-> 0, data |-> <<104, 105>>]
    ELSE IF name = <<233>>
    THEN [isfile |-> TRUE, openable |-> TRUE, blocks |-> 0, data |-> <<33>>]
    ELSE IF name = <<66>>
    THEN [isfile |-> TRUE, openable |-> FALSE, blocks |-> 0, data |-> <<120>>]
    ELSE IF name = <<69>>
    THEN [isfile |-> TRUE, openable |-> TRUE, blocks |-> 0, data |-> <<>>]
    ELSE IF name = <<72>>
    THEN [isfile |-> TRUE, openable |-> TRUE, blocks |-> 65536, data |-> <<72>>]
    ELSE [isfile |-> FALSE, openable |-> FALSE, blocks |-> 0, data |-> <<>>]

(* ---------------- the codec ---------------- *)
\* client.py construct_request
construct_request(filename) ==
    LET file_bytes == encode(filename)
    IN  to_bytes(MAGICNO, 2) \o <<REQUEST_TYPE>>
          \o to_bytes(Len(file_bytes), 2) \o file_bytes

\* is_valid_header without the test of the Type field (lines 107-109)
is_valid_header_noType(header) ==
    IF Len(header) = 0 THEN "invalid"
    ELSE IF from_bytes(Slice(header, 0, 2)) # MAGICNO THEN "invalid"
    ELSE IF Len(header) < 3 THEN "IndexError"
    ELSE IF from_bytes(Slice(header, 3, 5)) < MIN_FILENAME_LEN
            \/ from_bytes(Slice(header, 3, 5)) > MAX_FILENAME_LEN THEN "invalid"
    ELSE "valid"

\* is_valid_header with ">= MAX_FILENAME_LEN" for "> MAX_FILENAME_LEN" (line 111)
is_valid_header_exclusiveMax(header) ==
    IF Len(header) = 0 THEN "invalid"
    ELSE IF from_bytes(Slice(header, 0, 2)) # MAGICNO THEN "invalid"
    ELSE IF Len(header) < 3 THEN "IndexError"
    ELSE IF header[3] # REQUEST_TYPE THEN "invalid"
    ELSE IF from_bytes(Slice(header, 3, 5)) < MIN_FILENAME_LEN
            \/ from_bytes(Slice(header, 3, 5)) >= MAX_FILENAME_LEN THEN "invalid"
    ELSE "valid"

\* server.py is_valid_header: "valid", "invalid", or the IndexError of
\* header[2] on a header of fewer than 3 bytes
is_valid_header(header) ==
    IF Len(header) = 0 THEN "invalid"
    ELSE IF from_bytes(Slice(header, 0, 2)) # MAGICNO THEN "invalid"
    ELSE IF Len(header) < 3 THEN "IndexError"
    ELSE IF header[3] # REQUEST_TYPE THEN "invalid"
    ELSE IF from_bytes(Slice(header, 3, 5)) < MIN_FILENAME_LEN
            \/ from_bytes(Slice(header, 3, 5)) > MAX_FILENAME_LEN THEN "invalid"
    ELSE "valid"

\* server.py get_filename: filename_len = int.from_bytes(header[3:])
filename_len(header) == from_bytes(Slice(header, 3, Len(header)))

\* server.py get_file_data: the file's bytes, empty when open() fails
get_file_data(filename) ==
    IF ServerFS(filename).isfile /\ ServerFS(filename).openable
    THEN ServerFS(filename).data
    ELSE <<>>

\* server.py get_file_data: the 65536-byte blocks of the file read
get_file_blocks(filename) ==
    IF ServerFS(filename).isfile /\ ServerFS(filename).openable
    THEN ServerFS(filename).blocks
    ELSE 0

\* construct_response line 176: len(file_data).to_bytes(4, ...) raises
\* OverflowError when blocks * 65536 + n is 2^32 or more, that is when its
\* upper half does not fit 2 bytes
len_OverflowError(blocks, n) == OverflowError(blocks + (n \div 65536), 2)

\* get_filename line 137 with "<" for "!=": only a short read is refused
wrong_filename_length_short(filename_bytes, flen) == Len(filename_bytes) < flen

\* server.py get_filename line 137: len(filename_bytes) != filename_len
wrong_filename_length(filename_bytes, flen) == Len(filename_bytes) # flen

\* construct_response with status_code = 1 whatever len(file_data) is
construct_response_status1(file_data) ==
    to_bytes(MAGICNO, 2) \o <<RESPONSE_TYPE>> \o <<1>>
      \o to_bytes(Len(file_data), 4) \o file_data

\* server.py construct_response (when len(file_data) fits in 4 bytes)
construct_response(file_data) ==
    to_bytes(MAGICNO, 2) \o <<RESPONSE_TYPE>>
      \o <<IF Len(file_data) = 0 THEN 0 ELSE 1>>
      \o to_bytes(Len(file_data), 4) \o file_data

\* client.py validate_header: "ok", "exit", or the IndexError of header[2]
\* or header[3] on a header of fewer than 4 bytes
validate_header(header) ==
    IF Len(header) = 0 THEN "exit"
    ELSE IF from_bytes(Slice(header, 0, 2)) # MAGICNO THEN "exit"
    ELSE IF Len(header) < 3 THEN "IndexError"
    ELSE IF header[3] # RESPONSE_TYPE THEN "exit"
    ELSE IF Len(header) < 4 THEN "IndexError"
    ELSE IF header[4] \notin {0, 1} THEN "exit"
    ELSE "ok"

\* check_status_code that never exits
check_status_code_ignored(header) == "ok"

\* client.py check_status_code: exits on StatusCode 0
check_status_code(header) == IF header[4] = 0 THEN "exit" ELSE "ok"

\* client.py save_file: data_length = int.from_bytes(header[4:8])
decode_data_length(header) == from_bytes(Slice(header, 4, 8))

\* the test after the receive loop with "data_length > total_bytes"
length_mismatch_onlyShort(data_length, total_bytes) == data_length > total_bytes

\* client.py save_file: the test after the receive loop
length_mismatch(data_length, total_bytes) == data_length # total_bytes

(* ---------------- peers that do not run this repository's code ---------------- *)
\* the first n data bytes a hand-written peer sends: 101, 102, ...
Bytes(n) == [i \in 1..n |-> 100 + i]

\* every sequence over S of length 0..n
RECURSIVE SeqsUpTo(_, _)
SeqsUpTo(S, n) ==
    IF n = 0 THEN {<<>>}
    ELSE LET shorter == SeqsUpTo(S, n - 1)
         IN  shorter \cup {Append(p, b) : p \in shorter, b \in S}

\* 5-byte request headers: right and wrong MagicNo, right and wrong Type,
\* FilenameLen 0..2, 256..258, 1024..1026 and 65280..65282
RogueHeaders ==
    {m \o <<t, h, l>> : m \in {<<73, 126>>, <<73, 127>>, <<0, 126>>},
                        t \in {REQUEST_TYPE, RESPONSE_TYPE},
                        h \in {0, 1, 4, 255}, l \in {0, 1, 2}}

\* what a peer of the server sends on one connection: a header and 0..MaxPayload
\* filename bytes ("A", "E"), or a header cut short
RogueRequests ==
    {h \o p : h \in RogueHeaders, p \in SeqsUpTo({65, 69}, MaxPayload)}
      \cup {SubSeq(h, 1, k) : h \in RogueHeaders, k \in 0..4}

\* what a peer of the client sends: an 8-byte header with StatusCode 0, 1, 2,
\* DataLen 0..MaxData+1 or 256.., and 0..MaxData data bytes; or it cut short
RogueResponses ==
    LET full == {m \o <<t, st, 0, 0, d3, d4>> \o Bytes(n) :
                    m \in {<<73, 126>>, <<73, 127>>, <<0, 126>>},
                    t \in {RESPONSE_TYPE, REQUEST_TYPE},
                    st \in {0, 1, 2}, d3 \in {0, 1},
                    d4 \in 0..(MaxData + 1), n \in 0..MaxData}
    IN  full \cup {SubSeq(<<73, 126, RESPONSE_TYPE, 1, 0, 0, 0, 1>>, 1, k) : k \in 0..7}

\* the filenames the client is started with: "", "A", U+00E9, "B", "E", "H", "Z"
ClientFilenames == {<<>>, <<65>>, <<233>>, <<66>>, <<69>>, <<72>>, <<90>>}

\* no file of that name
NoFile == [exists |-> FALSE, readable |-> FALSE, data |-> <<>>]

\* the destination file before the client starts: absent, present and
\* readable, present and not readable
LocalFiles ==
    {NoFile, [exists |-> TRUE, readable |-> TRUE, data |-> <<9>>],
     [exists |-> TRUE, readable |-> FALSE, data |-> <<9>>]}

(* ---------------- state ---------------- *)
VARIABLES
    mode,         \* who talks to whom: "e2e" (this client with this server),
                  \* "rogueClient" (hand-written peers with this server),
                  \* "rogueServer" (this client with a hand-written peer)
    fault,        \* some recv/send/open/write/close raised (timeout or I/O error)
    \* server process (server.py main)
    srvPc,        \* position in main's loop, "terminated" once the process ended
    srvExit,      \* why the process ended
    s_header,     \* header = get_header(conn)
    hdrVerdict,   \* what is_valid_header(header) returned for this connection
    filename_bytes, \* get_filename's filename_bytes, what its recv returned
    filename,     \* filename = get_filename(header, conn)
    fileStatus,   \* outcome of open(filename, "rb") for this connection
    file_data,    \* file_data = get_file_data(filename), its bytes kept one by one
    file_blocks,  \* the 65536-byte blocks of file_data before those
    response,     \* response = construct_response(file_data)
    responded,    \* sendall(response) completed on this connection
    nConns,       \* connections accepted so far
    openConns,    \* accepted connections (conn) not closed yet
    \* the connection
    pending,      \* the client has connected, accept() has not returned it yet
    c2s,          \* bytes sent to the server, not yet received by it
    c2sClosed,    \* the server's peer has closed its end
    s2c,          \* bytes sent to the client, not yet received by it
    s2cClosed,    \* the client's peer has closed its end
    sentReq,      \* all bytes the server's peer has sent on this connection
    \* client process (client.py main)
    cliPc,        \* position in main, "Done" or "Failed" once the process ended
    cliExit,      \* why the process ended
    argFilename,  \* sys.argv[3]
    c_header,     \* header = get_header(soc)
    data_length,  \* save_file's data_length
    total_bytes,  \* save_file's total_bytes
    localFile,    \* the file named sys.argv[3] in the client's directory
    created       \* open(filename, "wb") succeeded in this run

srvVars == <<srvPc, srvExit, s_header, hdrVerdict, filename_bytes, filename,
             fileStatus, file_data, file_blocks, response, responded, nConns,
             openConns>>
netVars == <<pending, c2s, c2sClosed, s2c, s2cClosed, sentReq>>
cliVars == <<cliPc, cliExit, argFilename, c_header, data_length, total_bytes,
             localFile, created>>
vars == <<mode, fault, srvVars, netVars, cliVars>>

Init ==
    /\ mode \in {"e2e", "rogueClient", "rogueServer"}
    /\ fault = FALSE
    /\ srvPc = IF mode = "rogueServer" THEN "off" ELSE "accept"
    /\ srvExit = "none"
    /\ s_header = <<>>
    /\ hdrVerdict = "none"
    /\ filename_bytes = <<>>
    /\ filename = <<>>
    /\ fileStatus = "none"
    /\ file_data = <<>>
    /\ file_blocks = 0
    /\ openConns = 0
    /\ response = <<>>
    /\ responded = FALSE
    /\ nConns = 0
    /\ pending = FALSE
    /\ c2s = <<>>
    /\ c2sClosed = FALSE
    /\ s2c = <<>>
    /\ s2cClosed = FALSE
    /\ sentReq = <<>>
    /\ cliPc = IF mode = "rogueClient" THEN "off" ELSE "arguemnt_check"
    /\ cliExit = "none"
    /\ argFilename \in (IF mode = "e2e" THEN ClientFilenames ELSE {<<65>>})
    /\ c_header = <<>>
    /\ data_length = 0
    /\ total_bytes = 0
    /\ localFile \in (IF mode = "rogueClient" THEN {NoFile} ELSE LocalFiles)
    /\ created = FALSE

(* ---------------- server.py main ---------------- *)
\* leaving "with conn" without closing conn
srv_continue_leak ==
    /\ srvPc' = "accept"
    /\ s2cClosed' = s2cClosed
    /\ c2s' = <<>>
    /\ openConns' = openConns

\* leaving "with conn": the connection is closed, the loop accepts again
srv_continue ==
    /\ srvPc' = "accept"
    /\ s2cClosed' = TRUE
    /\ c2s' = <<>>
    /\ openConns' = openConns - 1

\* exit(1) or an uncaught exception: "with conn" and "with soc" close both
\* sockets and the process ends
srv_terminate(why) ==
    /\ srvPc' = "terminated"
    /\ srvExit' = why
    /\ s2cClosed' = TRUE
    /\ c2s' = <<>>
    /\ openConns' = 0

\* the locals of one pass of main's loop, before its first statement
srv_new_connection ==
    /\ srvPc' = "get_header"
    /\ nConns' = nConns + 1
    /\ openConns' = openConns + 1
    /\ s_header' = <<>> /\ hdrVerdict' = "none"
    /\ filename_bytes' = <<>> /\ filename' = <<>>
    /\ fileStatus' = "none" /\ file_data' = <<>> /\ file_blocks' = 0
    /\ response' = <<>> /\ responded' = FALSE

\* main line 208: conn = accept_connection(soc)
accept_connection ==
    /\ srvPc = "accept"
    /\ \/ /\ mode = "e2e" /\ pending
          /\ pending' = FALSE
          /\ \/ /\ srv_new_connection
                /\ UNCHANGED <<srvExit, c2s, c2sClosed, s2c, s2cClosed, sentReq, fault>>
             \/ \* soc.accept() raised: None is returned, the loop continues
                /\ s2cClosed' = TRUE /\ c2s' = <<>> /\ fault' = TRUE
                /\ UNCHANGED <<srvVars, c2sClosed, s2c, sentReq>>
       \/ /\ mode = "rogueClient" /\ nConns < MaxConns
          /\ \E req \in RogueRequests, closes \in BOOLEAN :
                /\ c2s' = req /\ sentReq' = req /\ c2sClosed' = closes
          /\ s2c' = <<>> /\ s2cClosed' = FALSE
          /\ srv_new_connection
          /\ UNCHANGED <<srvExit, pending, fault>>
    /\ UNCHANGED <<mode, cliVars>>

\* main line 212: header = get_header(conn), one recv(REQUEST_HEADER_LEN)
server_get_header ==
    /\ srvPc = "get_header"
    /\ \/ \E k \in 1..Min(REQUEST_HEADER_LEN, Len(c2s)) :
            /\ s_header' = SubSeq(c2s, 1, k)
            /\ c2s' = SubSeq(c2s, k + 1, Len(c2s))
            /\ srvPc' = "is_valid_header"
            /\ UNCHANGED <<srvExit, s2cClosed, fault, openConns>>
       \/ /\ c2s = <<>> /\ c2sClosed
          /\ s_header' = <<>>
          /\ srvPc' = "is_valid_header"
          /\ UNCHANGED <<srvExit, c2s, s2cClosed, fault, openConns>>
       \/ \E why \in {"timeout", "ioerror"} :
            /\ srv_terminate(why)
            /\ fault' = TRUE
            /\ UNCHANGED s_header
    /\ UNCHANGED <<mode, hdrVerdict, filename_bytes, filename, fileStatus, file_data,
                   file_blocks, response, responded, nConns, pending, c2sClosed,
                   s2c, sentReq, cliVars>>

\* main lines 213-214: if not is_valid_header(header): continue
server_is_valid_header ==
    /\ srvPc = "is_valid_header"
    /\ hdrVerdict' = is_valid_header(s_header)
    /\ \/ /\ is_valid_header(s_header) = "valid"
          /\ srvPc' = "get_filename"
          /\ UNCHANGED <<srvExit, s2cClosed, c2s, openConns>>
       \/ /\ is_valid_header(s_header) = "invalid"
          /\ srv_continue
          /\ UNCHANGED srvExit
       \/ /\ is_valid_header(s_header) = "IndexError"
          /\ srv_terminate("IndexError")
    /\ UNCHANGED <<mode, fault, s_header, filename_bytes, filename, fileStatus,
                   file_data, file_blocks, response, responded, nConns, pending,
                   c2sClosed, s2c, sentReq, cliVars>>

\* main lines 215-217: filename = get_filename(header, conn), one
\* recv(filename_len + 1); None when the byte count is not filename_len
server_get_filename ==
    /\ srvPc = "get_filename"
    /\ \/ \E k \in 1..Min(filename_len(s_header) + 1, Len(c2s)) :
            /\ filename_bytes' = SubSeq(c2s, 1, k)
            /\ IF wrong_filename_length(SubSeq(c2s, 1, k), filename_len(s_header))
               THEN /\ srv_continue
                    /\ UNCHANGED <<srvExit, filename, fault>>
               ELSE /\ filename' = join_map_chr(SubSeq(c2s, 1, k))
                    /\ c2s' = SubSeq(c2s, k + 1, Len(c2s))
                    /\ srvPc' = "get_file_data"
                    /\ UNCHANGED <<srvExit, s2cClosed, fault, openConns>>
       \/ /\ c2s = <<>> /\ c2sClosed
          /\ filename_bytes' = <<>>
          /\ IF wrong_filename_length(<<>>, filename_len(s_header))
             THEN /\ srv_continue
                  /\ UNCHANGED <<srvExit, filename, fault>>
             ELSE /\ filename' = <<>>
                  /\ srvPc' = "get_file_data"
                  /\ UNCHANGED <<srvExit, c2s, s2cClosed, fault, openConns>>
       \/ \E why \in {"timeout", "ioerror"} :
            /\ srv_terminate(why)
            /\ fault' = TRUE
            /\ UNCHANGED <<filename_bytes, filename>>
    /\ UNCHANGED <<mode, s_header, hdrVerdict, fileStatus, file_data, file_blocks,
                   response, responded, nConns, pending, c2sClosed, s2c, sentReq,
                   cliVars>>

\* main line 218: file_data = get_file_data(filename)
server_get_file_data ==
    /\ srvPc = "get_file_data"
    /\ file_data' = get_file_data(filename)
    /\ file_blocks' = get_file_blocks(filename)
    /\ fileStatus' = IF ~ServerFS(filename).isfile THEN "missing"
                     ELSE IF ~ServerFS(filename).openable THEN "unopenable"
                     ELSE "opened"
    /\ srvPc' = "construct_response"
    /\ UNCHANGED <<mode, fault, srvExit, s_header, hdrVerdict, filename_bytes,
                   filename, response, responded, nConns, openConns, netVars,
                   cliVars>>

\* main line 219: response = construct_response(file_data); the
\* OverflowError of line 176 is not caught
server_construct_response ==
    /\ srvPc = "construct_response"
    /\ IF len_OverflowError(file_blocks, Len(file_data))
       THEN /\ srv_terminate("OverflowError")
            /\ UNCHANGED response
       ELSE /\ response' = construct_response(file_data)
            /\ srvPc' = "send_response"
            /\ UNCHANGED <<srvExit, s2cClosed, c2s, openConns>>
    /\ UNCHANGED <<mode, fault, s_header, hdrVerdict, filename_bytes, filename,
                   fileStatus, file_data, file_blocks, responded, nConns, pending,
                   c2sClosed, s2c, sentReq, cliVars>>

\* main lines 220-222: send_response(conn, response), then "with conn" ends
server_send_response ==
    /\ srvPc = "send_response"
    /\ \/ /\ s2c' = s2c \o response
          /\ responded' = TRUE
          /\ UNCHANGED fault
       \/ \* sendall raised after k bytes: None is returned
          \E k \in 0..(Len(response) - 1) :
            /\ s2c' = s2c \o SubSeq(response, 1, k)
            /\ fault' = TRUE
            /\ UNCHANGED responded
    /\ srv_continue
    /\ UNCHANGED <<mode, srvExit, s_header, hdrVerdict, filename_bytes, filename,
                   fileStatus, file_data, file_blocks, response, nConns, pending,
                   c2sClosed, sentReq, cliVars>>

(* ---------------- client.py main ---------------- *)
\* exit(1), an uncaught exception or the end of main: "with soc" closes the
\* socket and the process ends
cli_terminate(how, why) ==
    /\ cliPc' = how
    /\ cliExit' = why
    /\ c2sClosed' = TRUE

\* client.py remove_file: os.remove(file.name), its failure only printed
remove_file(file, removed) == IF removed THEN NoFile ELSE file

\* arguemnt_check without lines 40-47: no destination is refused
file_already_exists_unchecked(file) == FALSE

\* arguemnt_check lines 40-47: os.path.isfile(filename) and open(filename) works
file_already_exists(file) == file.exists /\ file.readable

\* main line 202: arguemnt_check(), the test of the destination file
client_arguemnt_check ==
    /\ cliPc = "arguemnt_check"
    /\ IF file_already_exists(localFile)
       THEN cli_terminate("Failed", "exists")
       ELSE /\ cliPc' = "connect_to_server"
            /\ UNCHANGED <<cliExit, c2sClosed>>
    /\ UNCHANGED <<mode, fault, srvVars, pending, c2s, s2c, s2cClosed, sentReq,
                   argFilename, c_header, data_length, total_bytes, localFile, created>>

\* main lines 203-205: create_socket(TIMEOUT), connect_to_server
client_connect_to_server ==
    /\ cliPc = "connect_to_server"
    /\ \/ /\ mode = "e2e" /\ srvPc # "terminated"
          /\ pending' = TRUE
          /\ cliPc' = "sendall"
          /\ UNCHANGED <<fault, cliExit, c2sClosed, s2c, s2cClosed>>
       \/ /\ mode = "rogueServer"
          /\ \E resp \in RogueResponses, closes \in BOOLEAN :
                s2c' = resp /\ s2cClosed' = closes
          /\ cliPc' = "sendall"
          /\ UNCHANGED <<fault, cliExit, c2sClosed, pending>>
       \/ \* connect raised: "Couldn't connect to the server."
          /\ cli_terminate("Failed", "connect")
          /\ fault' = TRUE
          /\ UNCHANGED <<pending, s2c, s2cClosed>>
    /\ UNCHANGED <<mode, srvVars, c2s, sentReq, argFilename, c_header, data_length,
                   total_bytes, localFile, created>>

\* main lines 206-207: request = construct_request(filename); soc.sendall(request)
client_sendall ==
    /\ cliPc = "sendall"
    /\ IF OverflowError(Len(encode(argFilename)), 2)
       THEN /\ cli_terminate("Failed", "OverflowError")
            /\ UNCHANGED <<fault, c2s, sentReq>>
       ELSE \/ /\ c2s' = IF s2cClosed THEN c2s ELSE c2s \o construct_request(argFilename)
               /\ sentReq' = construct_request(argFilename)
               /\ cliPc' = "get_header"
               /\ UNCHANGED <<fault, cliExit, c2sClosed>>
            \/ \* sendall raised after k bytes: uncaught
               \E k \in 0..(Len(construct_request(argFilename)) - 1) :
                 /\ c2s' = IF s2cClosed THEN c2s
                           ELSE c2s \o SubSeq(construct_request(argFilename), 1, k)
                 /\ sentReq' = SubSeq(construct_request(argFilename), 1, k)
                 /\ cli_terminate("Failed", "sendall")
                 /\ fault' = TRUE
    /\ UNCHANGED <<mode, srvVars, pending, s2c, s2cClosed, argFilename, c_header,
                   data_length, total_bytes, localFile, created>>

\* recv on a socket made by create_socket() with its default timeout=None:
\* it blocks until data, EOF or an error, socket.timeout is never raised
client_recv_raises_blocking == {"ioerror"}

\* what a recv of the client can raise: socket.timeout after TIMEOUT seconds
\* without data (main line 203: create_socket(TIMEOUT)), or any other error
client_recv_raises == {"timeout", "ioerror"}

\* main line 208: header = get_header(soc), one recv(RESPONSE_HEADER_LEN)
client_get_header ==
    /\ cliPc = "get_header"
    /\ \/ \E k \in 1..Min(RESPONSE_HEADER_LEN, Len(s2c)) :
            /\ c_header' = SubSeq(s2c, 1, k)
            /\ s2c' = SubSeq(s2c, k + 1, Len(s2c))
            /\ cliPc' = "validate_header"
            /\ UNCHANGED <<fault, cliExit, c2sClosed>>
       \/ /\ s2c = <<>> /\ s2cClosed
          /\ c_header' = <<>>
          /\ cliPc' = "validate_header"
          /\ UNCHANGED <<fault, cliExit, c2sClosed, s2c>>
       \/ \E why \in client_recv_raises :
            /\ cli_terminate("Failed", why)
            /\ fault' = TRUE
            /\ UNCHANGED <<c_header, s2c>>
    /\ UNCHANGED <<mode, srvVars, pending, c2s, s2cClosed, sentReq, argFilename,
                   data_length, total_bytes, localFile, created>>

\* main line 209: validate_header(header)
client_validate_header ==
    /\ cliPc = "validate_header"
    /\ \/ /\ validate_header(c_header) = "ok"
          /\ cliPc' = "check_status_code"
          /\ UNCHANGED <<cliExit, c2sClosed>>
       \/ /\ validate_header(c_header) = "exit"
          /\ cli_terminate("Failed", "invalid_header")
       \/ /\ validate_header(c_header) = "IndexError"
          /\ cli_terminate("Failed", "IndexError")
    /\ UNCHANGED <<mode, fault, srvVars, pending, c2s, s2c, s2cClosed, sentReq,
                   argFilename, c_header, data_length, total_bytes, localFile, created>>

\* main line 210: check_status_code(header)
client_check_status_code ==
    /\ cliPc = "check_status_code"
    /\ IF check_status_code(c_header) = "exit"
       THEN cli_terminate("Failed", "status0")
       ELSE /\ cliPc' = "save_file"
            /\ UNCHANGED <<cliExit, c2sClosed>>
    /\ UNCHANGED <<mode, fault, srvVars, pending, c2s, s2c, s2cClosed, sentReq,
                   argFilename, c_header, data_length, total_bytes, localFile, created>>

\* save_file lines 153-163: open(filename, "wb"), which creates or truncates
\* the file, then data_length and total_bytes
client_save_file ==
    /\ cliPc = "save_file"
    /\ \/ /\ argFilename # <<>>
          /\ localFile' = [exists |-> TRUE,
                           readable |-> IF localFile.exists THEN localFile.readable
                                        ELSE TRUE,
                           data |-> <<>>]
          /\ created' = TRUE
          /\ data_length' = decode_data_length(c_header)
          /\ total_bytes' = 0
          /\ cliPc' = "receive_data_block"
          /\ UNCHANGED <<fault, cliExit, c2sClosed>>
       \/ \* open raised: "Failed to create the file."
          /\ cli_terminate("Failed", "open")
          /\ fault' = TRUE
          /\ UNCHANGED <<localFile, created, data_length, total_bytes>>
    /\ UNCHANGED <<mode, srvVars, pending, c2s, s2c, s2cClosed, sentReq,
                   argFilename, c_header>>

\* save_file lines 164-179: one pass of the receive loop and, on the empty
\* block, the close and the length test that follow the loop
client_receive_data_block ==
    /\ cliPc = "receive_data_block"
    /\ \/ \E k \in 1..Min(DATA_BLOCK_SIZE, Len(s2c)) :
            /\ s2c' = SubSeq(s2c, k + 1, Len(s2c))
            /\ \/ /\ localFile' = [localFile EXCEPT !.data = @ \o SubSeq(s2c, 1, k)]
                  /\ total_bytes' = total_bytes + k
                  /\ UNCHANGED <<fault, cliPc, cliExit, c2sClosed>>
               \/ \* file.write raised: write_to_file removes the file, still open
                  \E removed \in BOOLEAN :
                    /\ localFile' = remove_file(localFile, removed)
                    /\ cli_terminate("Failed", "write")
                    /\ fault' = TRUE
                    /\ UNCHANGED total_bytes
       \/ /\ s2c = <<>> /\ s2cClosed
          /\ \/ \* file.close() succeeded
                IF length_mismatch(data_length, total_bytes)
                THEN \E removed \in BOOLEAN :
                       /\ localFile' = remove_file(localFile, removed)
                       /\ cli_terminate("Failed", "mismatch")
                       /\ UNCHANGED fault
                ELSE /\ cli_terminate("Done", "none")
                     /\ UNCHANGED <<fault, localFile>>
             \/ \* file.close() at line 172 raised: uncaught
                /\ cli_terminate("Failed", "close")
                /\ fault' = TRUE
                /\ UNCHANGED localFile
          /\ UNCHANGED <<s2c, total_bytes>>
       \/ \* receive_data_block returned None: file.close(), remove_file, exit
          \E why \in client_recv_raises, removed \in BOOLEAN :
            /\ localFile' = remove_file(localFile, removed)
            /\ cli_terminate("Failed", why)
            /\ fault' = TRUE
            /\ UNCHANGED <<s2c, total_bytes>>
    /\ UNCHANGED <<mode, srvVars, pending, c2s, s2cClosed, sentReq, argFilename,
                   c_header, data_length, created>>

Next ==
    \/ accept_connection
    \/ server_get_header
    \/ server_is_valid_header
    \/ server_get_filename
    \/ server_get_file_data
    \/ server_construct_response
    \/ server_send_response
    \/ client_arguemnt_check
    \/ client_connect_to_server
    \/ client_sendall
    \/ client_get_header
    \/ client_validate_header
    \/ client_check_status_code
    \/ client_save_file
    \/ client_receive_data_block

Spec == Init /\ [][Next]_vars


\* the steps of the client process
ClientStep ==
    \/ client_arguemnt_check
    \/ client_connect_to_server
    \/ client_sendall
    \/ client_get_header
    \/ client_validate_header
    \/ client_check_status_code
    \/ client_save_file
    \/ client_receive_data_block

\* The client process keeps running: a statement that can complete does.
\* A connect or recv completes within TIMEOUT seconds, with data, with EOF or
\* with socket.timeout; nothing makes a recv raise any other error, so the
\* fairness is on the steps that are not such an error.
LiveSpec == Init /\ [][Next]_vars /\ WF_vars(ClientStep /\ cliExit' # "ioerror")

(* ---------------- properties ---------------- *)
\* the MagicNo field of a header of at least 2 bytes, read off the wire
MagicField(h) == h[1] * 256 + h[2]

\* the FilenameLen field of a 5-byte request header
FilenameLenField(h) == h[4] * 256 + h[5]

\* the DataLen field of an 8-byte response header
DataLenField(h) == h[5] * 16777216 + h[6] * 65536 + h[7] * 256 + h[8]

\* C1: a timeout or I/O error while the server reads the request header or
\* the filename closes that connection only: the server process does not
\* terminate because of it.
C1_TransportFailureIsConnectionLocal ==
    ~(srvPc = "terminated" /\ srvExit \in {"timeout", "ioerror"})

\* what the server's peer sent is not one well-formed FileRequest: fewer than
\* 5 header bytes, wrong MagicNo, wrong Type, FilenameLen outside 1..1024, or
\* a number of filename bytes other than FilenameLen
StructurallyInvalid(req) ==
    \/ Len(req) < REQUEST_HEADER_LEN
    \/ MagicField(req) # MAGICNO
    \/ req[3] # REQUEST_TYPE
    \/ FilenameLenField(req) \notin MIN_FILENAME_LEN..MAX_FILENAME_LEN
    \/ Len(req) - REQUEST_HEADER_LEN # FilenameLenField(req)

\* C2: when the request a connection carries is structurally invalid (and no
\* read timed out or failed), the server sends no response on it and the
\* server process keeps running.
C2_InvalidRequestDropped ==
    (nConns > 0 /\ ~fault /\ StructurallyInvalid(sentReq))
        => (srvPc # "terminated" /\ ~responded)

\* C3: the client ends in Done only with the destination file kept and the
\* number of bytes received and written equal to the DataLen of the header it
\* read; after the loop a different total ends in Failed.
C3_DoneOnlyOnExactLength ==
    /\ cliPc = "Done" =>
          /\ created /\ localFile.exists
          /\ total_bytes = data_length
          /\ Len(localFile.data) = total_bytes
          /\ Len(c_header) = RESPONSE_HEADER_LEN => total_bytes = DataLenField(c_header)
    /\ (cliPc \in {"Done", "Failed"} /\ cliExit \in {"none", "mismatch"} /\ created) =>
          (cliPc = "Failed" <=> total_bytes # data_length)

\* C3 witness: a download that ended in Done on a full header declaring 2 bytes
C3_Witness ==
    /\ cliPc = "Done" /\ Len(c_header) = RESPONSE_HEADER_LEN
    /\ DataLenField(c_header) = 2 /\ total_bytes = 2

\* C4: when the client fails after it created the destination file, the file
\* does not exist once the client has terminated.
C4_NoPartialFileLeft ==
    (cliPc = "Failed" /\ created) => ~localFile.exists

\* C5: the filename the server decodes from the client's request is the
\* filename string the client encoded, and FilenameLen is its encoded length.
C5_RequestRoundTrip ==
    (mode = "e2e" /\ srvPc \in {"get_file_data", "construct_response", "send_response"})
        => /\ filename = argFilename
           /\ filename_len(s_header) = Len(encode(argFilename))

\* C6: the response the server builds has StatusCode 0 for an empty payload
\* and 1 otherwise, DataLen equal to the payload's length (0 with StatusCode
\* 0), and the payload after the 8 header bytes; the client decodes that
\* DataLen and, when it ends in Done, holds exactly the payload.
C6_ResponseRoundTrip ==
    /\ srvPc = "send_response" =>
          /\ Len(response) = RESPONSE_HEADER_LEN + Len(file_data)
          /\ MagicField(response) = MAGICNO /\ response[3] = RESPONSE_TYPE
          /\ response[4] = (IF Len(file_data) = 0 THEN 0 ELSE 1)
          /\ DataLenField(response) = Len(file_data)
          /\ response[4] = 0 => DataLenField(response) = 0
          /\ SubSeq(response, RESPONSE_HEADER_LEN + 1, Len(response)) = file_data
          /\ decode_data_length(SubSeq(response, 1, RESPONSE_HEADER_LEN)) = Len(file_data)
    /\ (mode = "e2e" /\ cliPc = "Done" /\ Len(c_header) = RESPONSE_HEADER_LEN) =>
          /\ data_length = Len(file_data)
          /\ localFile.data = file_data

\* C6 witness: the client ended in Done holding the 2 bytes of the server's file
C6_Witness ==
    /\ mode = "e2e" /\ cliPc = "Done" /\ Len(c_header) = RESPONSE_HEADER_LEN
    /\ responded /\ file_data = <<104, 105>> /\ localFile.data = <<104, 105>>

\* C7: the server reads filename bytes, and the client creates the destination
\* file or reads data, only after a header with MagicNo 0x497E and the
\* expected Type (1 at the server, 2 at the client).
C7_BadHeaderRejectedFirst ==
    /\ srvPc \in {"get_filename", "get_file_data", "construct_response", "send_response"} =>
          /\ Len(s_header) >= 3
          /\ MagicField(s_header) = MAGICNO
          /\ s_header[3] = REQUEST_TYPE
    /\ (cliPc \in {"save_file", "receive_data_block"} \/ created) =>
          /\ Len(c_header) >= 3
          /\ MagicField(c_header) = MAGICNO
          /\ c_header[3] = RESPONSE_TYPE

\* C7 witness: the server rejected a full header with the right MagicNo, a
\* FilenameLen in range and the wrong Type, and is accepting again
C7_Witness ==
    /\ srvPc = "accept" /\ hdrVerdict = "invalid"
    /\ s_header = <<73, 126, RESPONSE_TYPE, 0, 1>>

\* C8: a full 5-byte header with the right MagicNo and Type is accepted by the
\* server if and only if its FilenameLen is in 1..1024.
C8_FilenameLenBounds ==
    (/\ hdrVerdict # "none"
     /\ Len(s_header) = REQUEST_HEADER_LEN
     /\ MagicField(s_header) = MAGICNO
     /\ s_header[3] = REQUEST_TYPE)
        => (hdrVerdict = "valid" <=> FilenameLenField(s_header) \in 1..1024)

\* C8 witness: FilenameLen 1024 was accepted
C8_Witness ==
    hdrVerdict = "valid" /\ s_header = <<73, 126, REQUEST_TYPE, 4, 0>>

\* C9: when the file the server is asked for is missing or cannot be opened,
\* the response is exactly the 8 bytes (MagicNo, Type 2, StatusCode 0,
\* DataLen 0), and the client never creates the destination file and never
\* ends in Done.
C9_NotFound ==
    /\ (srvPc = "send_response" /\ fileStatus \in {"missing", "unopenable"}) =>
          response = <<73, 126, RESPONSE_TYPE, 0, 0, 0, 0, 0>>
    /\ (mode = "e2e" /\ fileStatus \in {"missing", "unopenable"}) =>
          /\ ~created
          /\ cliPc # "Done"
          /\ \E k \in 0..RESPONSE_HEADER_LEN :
                c_header \o s2c = SubSeq(<<73, 126, RESPONSE_TYPE, 0, 0, 0, 0, 0>>, 1, k)

\* C9 witness: the server answered for a missing file and the client exited
\* in check_status_code
C9_Witness ==
    /\ mode = "e2e" /\ fileStatus = "missing" /\ responded
    /\ cliPc = "Failed" /\ cliExit = "status0" /\ ~created

\* C10: with no timeout and no I/O error, a client that asks for an existing
\* non-empty file under a name of 1..1024 bytes ends in Done with a local
\* file equal to the server's file, however the bytes are split across reads.
C10_DownloadSucceeds ==
    (/\ mode = "e2e" /\ ~fault
     /\ cliPc \in {"Done", "Failed"} /\ cliExit # "exists"
     /\ Len(encode(argFilename)) \in MIN_FILENAME_LEN..MAX_FILENAME_LEN
     /\ ServerFS(argFilename).isfile /\ ServerFS(argFilename).openable
     /\ ServerFS(argFilename).data # <<>>)
        => /\ cliPc = "Done"
           /\ localFile.exists
           /\ localFile.data = ServerFS(argFilename).data
           /\ data_length = Len(localFile.data)

\* C11: a client run whose header read returned fewer than 8 bytes, or a
\* header with the wrong MagicNo, the wrong Type or a StatusCode outside
\* {0, 1}, never ends in Done.
C11_BadResponseHeaderFails ==
    cliPc = "Done" =>
        /\ Len(c_header) = RESPONSE_HEADER_LEN
        /\ MagicField(c_header) = MAGICNO
        /\ c_header[3] = RESPONSE_TYPE
        /\ c_header[4] \in {0, 1}

\* C12: every FileRequest header the client puts on the wire has a
\* FilenameLen in 1..1024.
C12_ClientFilenameLenInRange ==
    (mode # "rogueClient" /\ Len(sentReq) >= REQUEST_HEADER_LEN)
        => FilenameLenField(sentReq) \in MIN_FILENAME_LEN..MAX_FILENAME_LEN

\* C14: the server goes on to read the filename only with a header of all
\* 5 bytes: a header of 1 to 4 bytes is never accepted.
C14_ShortHeaderNeverAccepted ==
    (hdrVerdict = "valid" \/ srvPc = "get_filename")
        => Len(s_header) = REQUEST_HEADER_LEN


\* C13: while the destination file is there from before the run, the run
\* never gets past the argument check: it ends Failed at that check, no
\* connection is opened, nothing is sent, and the file keeps its contents.
C13_ExistingFileUntouched ==
    (localFile.exists /\ localFile.readable /\ ~created) =>
        /\ cliPc \in {"off", "arguemnt_check", "Failed"}
        /\ cliPc = "Failed" => cliExit = "exists"
        /\ ~pending
        /\ mode # "rogueClient" => sentReq = <<>>
        /\ localFile.data = <<9>>

C13_Witness ==
    /\ cliPc = "Failed" /\ cliExit = "exists"
    /\ localFile.exists /\ localFile.readable /\ localFile.data = <<9>>
    /\ ~created /\ sentReq = <<>>

\* C15: the filename read never returns more than FilenameLen + 1 bytes;
\* the server goes on to the file, and to a response, only when it returned
\* exactly FilenameLen bytes; with any other count the connection is closed
\* with no file opened and nothing sent on it.
C15_ExactFilenameLength ==
    /\ hdrVerdict = "valid" =>
          Len(filename_bytes) <= filename_len(s_header) + 1
    /\ (\/ srvPc \in {"get_file_data", "construct_response", "send_response"}
        \/ fileStatus # "none"
        \/ response # <<>>
        \/ responded)
          => Len(filename_bytes) = filename_len(s_header)
    /\ (/\ hdrVerdict = "valid"
        /\ srvPc \in {"accept", "terminated"}
        /\ Len(filename_bytes) # filename_len(s_header))
          => /\ ~responded
             /\ fileStatus = "none"
             /\ response = <<>>
             /\ s2c = <<>>
             /\ s2cClosed

C15_Witness ==
    /\ hdrVerdict = "valid"
    /\ srvPc = "accept"
    /\ Len(filename_bytes) = filename_len(s_header) + 1
    /\ ~responded /\ s2c = <<>> /\ s2cClosed

\* C16: the server never holds two accepted connections: a connection is
\* open exactly while its handling is in progress, and is closed whenever
\* the server is back at accept, whether it responded or dropped.
C16_OneConnectionAtATime ==
    /\ openConns \in {0, 1}
    /\ srvPc \in {"off", "accept", "terminated"} => openConns = 0
    /\ srvPc \in {"get_header", "is_valid_header", "get_filename",
                  "get_file_data", "construct_response", "send_response"}
          => openConns = 1
    /\ responded => (srvPc = "accept" /\ openConns = 0)

C16_Witness ==
    /\ nConns = 2
    /\ srvPc = "get_header"
    /\ openConns = 1

\* C18: the server never ends on the OverflowError of encoding a file's
\* length in 4 bytes.
C18_HugeFileIsAnswered ==
    ~(srvPc = "terminated" /\ srvExit = "OverflowError")

\* C17: every client run ends in Done or Failed, whatever the peer sent
\* before it went silent or closed the stream.
C17_ClientTerminates ==
    (cliPc # "off") ~> (cliPc \in {"Done", "Failed"})

\* a run that ended on the timeout of a read, the peer silent and not closed
C17_Witness ==
    /\ mode = "rogueServer"
    /\ cliPc = "Failed" /\ cliExit = "timeout"
    /\ s2c = <<>> /\ ~s2cClosed

====
